---- MODULE Spec2Model ----
(***************************************************************************)
(* Model of lld/wasm/InputChunks.h: one input chunk (a data segment,       *)
(* InputSegment, or a function, InputFunction) through its life: relocation*)
(* copy, placement, output-index assignment, address translation.          *)
(*                                                                         *)
(* uint32_t / int32_t values are modelled with a scaled-down word of Bits  *)
(* bits (Mod = 2^Bits); sums and conversions wrap as the C++ types do.     *)
(* assert() is modelled per build: with NDEBUG the check is compiled out.  *)
(***************************************************************************)
EXTENDS Integers, Sequences, FiniteSets, TLC

\* ---------------------------------------------------------------- bounds
Bits == 11
MaxPlaceCalls == 2
MaxIndexCalls == 2
MaxCopies == 2

Mod == 2^Bits
Half == 2^(Bits - 1)

\* uint32_t and int32_t conversions (two's complement, modulo the word).
ToUint32(x) == x % Mod
ToInt32(x) == IF (x % Mod) >= Half THEN (x % Mod) - Mod ELSE x % Mod

\* ---------------------------------------------------------------- inputs
nullptr == 0
NoValue == 0 - 1

\* const OutputSegment * values a caller can pass (addresses of live objects).
OutputSegments == {1, 2}
\* (aggregate, offset) pairs handed to setOutputSegment by the layout.
PlaceInputs == {<<1, 0>>, <<1, 500>>, <<2, 0>>, <<2, Mod - 1>>}
\* Indexes handed to setOutputIndex.
Indices == {0, 5, 7}

\* WasmSegment records of the object file: Data.Offset.Value.Int32,
\* Data.Content.size(), SectionOffset.
SegmentInputs ==
  [Offset : {0, 1000, -8}, Size : {0, 16}, SectionOffset : {20}]
\* WasmFunction records: Size, CodeSectionOffset.
FunctionInputs == [Size : {0, 15}, CodeSectionOffset : {0, 20}]
NoSegment == [Offset |-> 0, Size |-> 0, SectionOffset |-> 0]
NoFunction == [Size |-> 0, CodeSectionOffset |-> 0]

\* A WasmRelocation: its Offset in the section and its Index (which also
\* tells the entries of one section apart).
Reloc(o, i) == [Offset |-> o, Index |-> i]
\* Relocation sections (WasmSection::Relocations) of the object file.
Sections ==
  << <<Reloc(10, 1), Reloc(20, 2), Reloc(30, 3), Reloc(40, 4)>>,
     <<Reloc(19, 1), Reloc(20, 2), Reloc(34, 3), Reloc(35, 4), Reloc(36, 5)>>,
     <<Reloc(14, 1), Reloc(0, 2), Reloc(15, 3), Reloc(0, 4)>> >>

\* ----------------------------------------------------------------- state
VARIABLES
  NDEBUG,          \* build: TRUE when assert() is compiled out
  kind,            \* "segment" (InputSegment) or "function" (InputFunction)
  Segment,         \* InputSegment::Segment
  Function,        \* InputFunction::Function
  OutputOffset,    \* InputChunk::OutputOffset (int32_t)
  Relocations,     \* InputChunk::Relocations
  OutRelocations,  \* InputChunk::OutRelocations
  OutputSeg,       \* InputSegment::OutputSeg
  OutputIndex,     \* InputFunction::OutputIndex (llvm::Optional<uint32_t>)
  pc,              \* "running", or "aborted" after a fatal failure
  ret,             \* the last call: operation, argument, outcome
  placeLog,        \* history: the setOutputSegment calls made
  indexLog,        \* history: the setOutputIndex calls made
  copyLog          \* history: the copyRelocations calls made

vars == <<NDEBUG, kind, Segment, Function, OutputOffset, Relocations,
          OutRelocations, OutputSeg, OutputIndex, pc, ret, placeLog,
          indexLog, copyLog>>

chunkVars == <<OutputOffset, Relocations, OutRelocations, OutputSeg, OutputIndex>>
inputVars == <<NDEBUG, kind, Segment, Function>>
logVars == <<placeLog, indexLog, copyLog>>

Ret(op, arg, fatal, val) == [op |-> op, arg |-> arg, fatal |-> fatal, val |-> val]

\* llvm::Optional<uint32_t>
None == [hasVal |-> FALSE, value |-> 0]
Some(v) == [hasVal |-> TRUE, value |-> v]

Init ==
  /\ NDEBUG \in BOOLEAN
  /\ kind \in {"segment", "function"}
  /\ IF kind = "segment"
       THEN Segment \in SegmentInputs /\ Function = NoFunction
       ELSE Segment = NoSegment /\ Function \in FunctionInputs
  /\ OutputOffset = 0
  /\ Relocations = << >>
  /\ OutRelocations = << >>
  /\ OutputSeg = nullptr
  /\ OutputIndex = None
  /\ pc = "running"
  /\ ret = Ret("none", 0, FALSE, NoValue)
  /\ placeLog = << >>
  /\ indexLog = << >>
  /\ copyLog = << >>

\* --------------------------------------------------------- pure queries
\* A plausible slip: the size one too large.
getSizeOffByOne ==
  (IF kind = "segment" THEN Segment.Size ELSE Function.Size) + 1

getSize == IF kind = "segment" THEN Segment.Size ELSE Function.Size

getInputSectionOffset ==
  IF kind = "segment" THEN Segment.SectionOffset ELSE Function.CodeSectionOffset

\* A plausible slip: the section offset taken for the virtual address.
startVASectionOffset == ToUint32(Segment.SectionOffset)

startVA == ToUint32(Segment.Offset)

\* A plausible slip: an inclusive upper end.
endVAInclusive == ToUint32(startVA + getSize + 1)

endVA == ToUint32(startVA + getSize)

hasValue == OutputIndex.hasVal

\* ------------------------------------------------------------ InputChunk
\* copyRelocations is only declared in the header; its behaviour follows the
\* design document.
\* The entries of rels whose Offset lies in [Start, Start + Size), each with
\* its Offset made chunk-local, in the order of rels.
RECURSIVE SelectRelocations(_, _, _)
SelectRelocations(rels, Start, Size) ==
  IF rels = << >> THEN << >>
  ELSE LET R == Head(rels)
           rest == SelectRelocations(Tail(rels), Start, Size)
       IN IF R.Offset >= Start /\ R.Offset < Start + Size
            THEN <<[R EXCEPT !.Offset = R.Offset - Start]>> \o rest
            ELSE rest

\* An OutRelocations slot not yet populated by the writer.
EmptySlot == [filled |-> FALSE]

\* A plausible slip: entries the chunk already holds are skipped.
AppendRelocationsDedup(sel) ==
  LET fresh == SelectSeq(sel, LAMBDA r : \A k \in DOMAIN Relocations : Relocations[k] # r)
  IN /\ Relocations' = Relocations \o fresh
     /\ OutRelocations' = OutRelocations \o [i \in 1..Len(fresh) |-> EmptySlot]

\* A plausible slip: capacity reserved, but no slots created.
AppendRelocationsReserveOnly(sel) ==
  /\ Relocations' = Relocations \o sel
  /\ OutRelocations' = OutRelocations

AppendRelocations(sel) ==
  /\ Relocations' = Relocations \o sel
  /\ OutRelocations' = OutRelocations \o [i \in 1..Len(sel) |-> EmptySlot]

copyRelocations(s) ==
  /\ pc = "running"
  /\ Len(copyLog) < MaxCopies
  /\ AppendRelocations(SelectRelocations(Sections[s], getInputSectionOffset, getSize))
  /\ copyLog' = Append(copyLog, [sec |-> s, before |-> Len(Relocations),
                                 after |-> Len(Relocations')])
  /\ ret' = Ret("copyRelocations", s, FALSE, NoValue)
  /\ UNCHANGED <<inputVars, OutputOffset, OutputSeg, OutputIndex, pc, placeLog, indexLog>>

\* ---------------------------------------------------------- InputSegment
\* A plausible slip: the offset is not recorded.
StoreSegmentOnly(seg, off) ==
  /\ OutputSeg' = seg
  /\ OutputOffset' = OutputOffset

\* A plausible slip: the aggregate is not recorded.
StoreOffsetOnly(seg, off) ==
  /\ OutputSeg' = OutputSeg
  /\ OutputOffset' = ToInt32(off)

StoreOutputSegment(seg, off) ==
  /\ OutputSeg' = seg
  /\ OutputOffset' = ToInt32(off)

setOutputSegment(seg, off) ==
  /\ pc = "running"
  /\ kind = "segment"
  /\ Len(placeLog) < MaxPlaceCalls
  /\ StoreOutputSegment(seg, off)
  /\ placeLog' = Append(placeLog, [seg |-> seg, off |-> off])
  /\ ret' = Ret("setOutputSegment", off, FALSE, NoValue)
  /\ UNCHANGED <<inputVars, Relocations, OutRelocations, OutputIndex, pc, indexLog, copyLog>>

getOutputSegment ==
  /\ pc = "running"
  /\ kind = "segment"
  /\ ret' = Ret("getOutputSegment", 0, FALSE, OutputSeg)
  /\ UNCHANGED <<inputVars, chunkVars, pc, logVars>>

\* translateVA is only declared in the header; its behaviour follows the
\* design document: fatal unless placed and Address in [startVA, endVA).
translateVAOk(Address) ==
  /\ OutputSeg # nullptr
  /\ Address >= startVA
  /\ Address < endVA

translateVAResult(Address) == ToUint32((Address - startVA) + OutputOffset)

\* Addresses asked for: around both ends of the segment.
TranslateAddresses ==
  {ToUint32(Segment.Offset + d) : d \in {-1, 0, Segment.Size - 1, Segment.Size}}

translateVA(Address) ==
  /\ pc = "running"
  /\ kind = "segment"
  /\ IF translateVAOk(Address)
       THEN /\ ret' = Ret("translateVA", Address, FALSE, translateVAResult(Address))
            /\ pc' = pc
       ELSE /\ ret' = Ret("translateVA", Address, TRUE, NoValue)
            /\ pc' = "aborted"
  /\ UNCHANGED <<inputVars, chunkVars, logVars>>

\* --------------------------------------------------------- InputFunction
\* What an unset Optional's storage may hold.
Indeterminate == Indices \cup {Mod - 1}

hasOutputIndex ==
  /\ pc = "running"
  /\ kind = "function"
  /\ ret' = Ret("hasOutputIndex", 0, FALSE, IF hasValue THEN 1 ELSE 0)
  /\ UNCHANGED <<inputVars, chunkVars, pc, logVars>>

\* Optional::getValue(): assert(hasVal), then the stored value.
getOutputIndex ==
  /\ pc = "running"
  /\ kind = "function"
  /\ IF hasValue
       THEN ret' = Ret("getOutputIndex", 0, FALSE, OutputIndex.value) /\ pc' = pc
       ELSE IF NDEBUG
              THEN /\ \E v \in Indeterminate : ret' = Ret("getOutputIndex", 0, FALSE, v)
                   /\ pc' = pc
              ELSE /\ ret' = Ret("getOutputIndex", 0, TRUE, NoValue)
                   /\ pc' = "aborted"
  /\ UNCHANGED <<inputVars, chunkVars, logVars>>

setOutputIndex(Index) ==
  /\ pc = "running"
  /\ kind = "function"
  /\ Len(indexLog) < MaxIndexCalls
  /\ indexLog' = Append(indexLog, Index)
  /\ IF ~NDEBUG /\ hasValue
       THEN /\ ret' = Ret("setOutputIndex", Index, TRUE, NoValue)
            /\ pc' = "aborted"
            /\ OutputIndex' = OutputIndex
       ELSE /\ ret' = Ret("setOutputIndex", Index, FALSE, NoValue)
            /\ pc' = pc
            /\ OutputIndex' = Some(Index)
  /\ UNCHANGED <<inputVars, OutputOffset, Relocations, OutRelocations, OutputSeg,
                 placeLog, copyLog>>

\* ------------------------------------------------------------------ spec
Next ==
  \/ \E s \in DOMAIN Sections : copyRelocations(s)
  \/ \E p \in PlaceInputs : setOutputSegment(p[1], p[2])
  \/ getOutputSegment
  \/ \E Address \in TranslateAddresses : translateVA(Address)
  \/ hasOutputIndex
  \/ getOutputIndex
  \/ \E Index \in Indices : setOutputIndex(Index)

Spec == Init /\ [][Next]_vars

\* ---------------------------------------------------------------- claims
\* The chunk's range as the object file records it.
SrcStartVA == ToUint32(Segment.Offset)
SrcSize == IF kind = "segment" THEN Segment.Size ELSE Function.Size
SrcSectionOffset ==
  IF kind = "segment" THEN Segment.SectionOffset ELSE Function.CodeSectionOffset
Last(seq) == seq[Len(seq)]
\* What the k-th copyRelocations call appended to Relocations.
Appended(k) == SubSeq(Relocations, copyLog[k].before + 1, copyLog[k].after)

C2_TranslateFails ==
  (ret.op = "translateVA"
     /\ (placeLog = << >>
         \/ ~(SrcStartVA <= ret.arg /\ ret.arg < SrcStartVA + SrcSize)))
  => (ret.fatal /\ ret.val = NoValue /\ pc = "aborted")

\* A placed chunk asked for the address one past its end.
C2_Witness ==
  /\ ret.op = "translateVA" /\ placeLog # << >> /\ Segment.Size > 0
  /\ ret.arg = SrcStartVA + SrcSize /\ ret.fatal

\* The positions of sec whose offset lies in [F, F + N).
InRange(sec) ==
  {i \in DOMAIN sec : SrcSectionOffset <= sec[i].Offset
                      /\ sec[i].Offset < SrcSectionOffset + SrcSize}
\* The j-th smallest position of a set of positions.
Nth(idxs, j) == CHOOSE i \in idxs : Cardinality({m \in idxs : m < i}) = j - 1

\* C3: each copyRelocations call appends exactly the section's entries with
\* F <= offset < F + N, each rebased to offset - F, in the section's order.
C3_CopySelectsRange ==
  /\ copyLog # << >> => copyLog[1].before = 0 /\ Last(copyLog).after = Len(Relocations)
  /\ \A k \in DOMAIN copyLog :
       LET sec == Sections[copyLog[k].sec]
           idxs == InRange(sec)
           app == Appended(k)
       IN /\ k > 1 => copyLog[k].before = copyLog[k - 1].after
          /\ Len(app) = Cardinality(idxs)
          /\ \A j \in DOMAIN app :
               app[j] = [sec[Nth(idxs, j)] EXCEPT !.Offset = @ - SrcSectionOffset]

\* Entries at {10, 20, 30, 40}, F = 20, N = 15: local offsets 0 and 10.
C3_Witness ==
  /\ ret.op = "copyRelocations" /\ Len(copyLog) = 1 /\ copyLog[1].sec = 1
  /\ SrcSectionOffset = 20 /\ SrcSize = 15
  /\ Relocations = <<Reloc(0, 2), Reloc(10, 3)>>

\* C4 (as stated): the output index is write-once: unset until the first
\* setOutputIndex(i), then i for ever; a later setOutputIndex fails fatally.
C4_IndexWriteOnce ==
  /\ indexLog = << >> => ~OutputIndex.hasVal
  /\ indexLog # << >> => OutputIndex = Some(indexLog[1])
  /\ Len(indexLog) >= 2 => pc = "aborted"

\* C5 (as stated): getOutputIndex before any setOutputIndex fails and returns
\* no value; hasOutputIndex never fails.
C5_ReadBeforeWriteFails ==
  /\ (ret.op = "getOutputIndex" /\ indexLog = << >>)
       => (ret.fatal /\ ret.val = NoValue)
  /\ ret.op = "hasOutputIndex" => ~ret.fatal

\* C6 (as stated): a second setOutputSegment call does not replace the
\* aggregate or the offset the first call recorded.
C6_PlaceOnce ==
  placeLog # << >> =>
    /\ OutputSeg = placeLog[1].seg
    /\ ToUint32(OutputOffset) = placeLog[1].off

\* C7: the placement is wholly absent or wholly present: the aggregate and the
\* offset both come from the same (latest) setOutputSegment call.
C7_PlacementWhole ==
  /\ placeLog = << >> => OutputSeg = nullptr /\ OutputOffset = 0
  /\ placeLog # << >> =>
       /\ OutputSeg # nullptr
       /\ OutputSeg = Last(placeLog).seg
       /\ ToUint32(OutputOffset) = Last(placeLog).off

C7_Witness ==
  /\ ret.op = "setOutputSegment" /\ ret.arg = 500
  /\ OutputSeg = 1 /\ OutputOffset = 500

\* C8: once copyRelocations has run, OutRelocations is as long as Relocations,
\* in every later state.
C8_ParallelLists ==
  copyLog # << >> => Len(OutRelocations) = Len(Relocations)

\* Entries were selected, and a later operation has run.
C8_Witness ==
  /\ copyLog # << >> /\ Len(Relocations) > 0
  /\ Len(OutRelocations) = Len(Relocations)
  /\ ret.op = "setOutputSegment"

\* C9 (as stated): the output offset of a placed chunk differs from that of a
\* freshly constructed one (0), also when placed at offset 0.
C9_OffsetTellsPlaced ==
  placeLog # << >> => OutputOffset # 0

\* C9 (amended): a fresh chunk has output offset 0, the value a chunk placed
\* at offset 0 has too; a data chunk is observable as unplaced exactly until
\* the first placement through its aggregate (getOutputSegment is null).
C9_AggregateTellsPlaced ==
  /\ placeLog = << >> => OutputOffset = 0
  /\ ret.op = "getOutputSegment" => (ret.val = nullptr <=> placeLog = << >>)

\* Placed at offset 0: the offset is the default, the aggregate is not.
C9_Witness ==
  /\ placeLog # << >> /\ Last(placeLog).off = 0 /\ OutputOffset = 0
  /\ ret.op = "getOutputSegment" /\ ret.val # nullptr

\* C10: two copyRelocations calls with the same section select the same
\* entries, whatever the relocation lists already hold.
C10_PureFilter ==
  \A i, j \in DOMAIN copyLog :
    copyLog[i].sec = copyLog[j].sec => Appended(i) = Appended(j)

\* The same section copied twice, with entries selected.
C10_Witness ==
  /\ Len(copyLog) = 2 /\ copyLog[1].sec = copyLog[2].sec
  /\ Appended(1) # << >> /\ Len(Relocations) = 2 * Len(Appended(1))
====
